---- MODULE Spec2Model ----
(***************************************************************************)
(* SXA backend (src/backend.js): the biomechanics scoring service          *)
(* (SPORT_PATTERNS, analyzeVideo, generateInsights) and the session and    *)
(* athlete routes over the SQLite tables.                                  *)
(*                                                                         *)
(* Conventions                                                             *)
(*  - weights are kept in hundredths (0.30 is 30), so the weighted sum is  *)
(*    an exact integer number of hundredths;                               *)
(*  - a JavaScript value that may be undefined/null is a sequence of       *)
(*    length at most one: <<>> is absent, <<v>> is the value v;            *)
(*  - identifiers are naturals, 0 is the absent/empty (falsy) identifier;  *)
(*  - datetime('now') is the clock, counted in whole seconds.              *)
(***************************************************************************)
EXTENDS Integers, Sequences, FiniteSets, TLC

VARIABLES
    db,        \* TRUE when better-sqlite3 loaded and the handle is open
    athletes,  \* table athletes: id -> row
    sessions,  \* table sessions: id -> row
    clock,     \* datetime('now'), in seconds
    uuid,      \* number of identifiers uuidv4() has handed out
    req,       \* the request the last handler served
    res,       \* the response the last handler sent
    io,        \* what the last handler did to the database
    engine,    \* inputs and output of the scoring functions run on their own
    inflight   \* profile requests whose body is parsed, and what became of them

vars == <<db, athletes, sessions, clock, uuid, req, res, io, engine, inflight>>

sysVars == <<db, athletes, sessions, clock, uuid, req, res, io, inflight>>

(***************************************************************************)
(* Bounds of the model.                                                    *)
(***************************************************************************)
MaxClock == 1

MaxUuid == 2

(***************************************************************************)
(* BIOMECHANICS SCORING SERVICE                                            *)
(***************************************************************************)
Dims == <<"form", "power", "consistency", "balance", "timing">>

DimSet == {Dims[i] : i \in 1..Len(Dims)}

Wt(f, p, c, b, t) ==
    [form |-> f, power |-> p, consistency |-> c, balance |-> b, timing |-> t]

SPORT_PATTERNS_Skewed ==
    [k \in {"long-jump", "high-jump", "sprinting", "basketball", "soccer",
            "tennis", "running", "golf", "yoga", "jumping", "swimming",
            "cycling"} |->
        CASE k = "long-jump"  -> [name |-> "Long Jump",           weights |-> Wt(30, 20, 20, 15, 15)]
          [] k = "high-jump"  -> [name |-> "High Jump",           weights |-> Wt(35, 20, 18, 12, 15)]
          [] k = "sprinting"  -> [name |-> "Sprinting",           weights |-> Wt(25, 25, 25, 10, 15)]
          [] k = "basketball" -> [name |-> "Basketball Shooting", weights |-> Wt(35, 15, 25, 15, 10)]
          [] k = "soccer"     -> [name |-> "Soccer Kicking",      weights |-> Wt(30, 20, 20, 15, 15)]
          [] k = "tennis"     -> [name |-> "Tennis Serve",        weights |-> Wt(32, 18, 22, 13, 15)]
          [] k = "running"    -> [name |-> "Distance Running",    weights |-> Wt(25, 20, 30, 15, 10)]
          [] k = "golf"       -> [name |-> "Golf Swing",          weights |-> Wt(35, 20, 25, 12, 8)]
          [] k = "yoga"       -> [name |-> "Yoga",                weights |-> Wt(40, 5, 20, 30, 15)]
          [] k = "jumping"    -> [name |-> "Jump Training",       weights |-> Wt(25, 35, 20, 12, 8)]
          [] k = "swimming"   -> [name |-> "Swimming",            weights |-> Wt(35, 20, 25, 10, 10)]
          [] k = "cycling"    -> [name |-> "Cycling",             weights |-> Wt(30, 25, 25, 12, 8)]]

SPORT_PATTERNS ==
    [k \in {"long-jump", "high-jump", "sprinting", "basketball", "soccer",
            "tennis", "running", "golf", "yoga", "jumping", "swimming",
            "cycling"} |->
        CASE k = "long-jump"  -> [name |-> "Long Jump",           weights |-> Wt(30, 20, 20, 15, 15)]
          [] k = "high-jump"  -> [name |-> "High Jump",           weights |-> Wt(35, 20, 18, 12, 15)]
          [] k = "sprinting"  -> [name |-> "Sprinting",           weights |-> Wt(25, 25, 25, 10, 15)]
          [] k = "basketball" -> [name |-> "Basketball Shooting", weights |-> Wt(35, 15, 25, 15, 10)]
          [] k = "soccer"     -> [name |-> "Soccer Kicking",      weights |-> Wt(30, 20, 20, 15, 15)]
          [] k = "tennis"     -> [name |-> "Tennis Serve",        weights |-> Wt(32, 18, 22, 13, 15)]
          [] k = "running"    -> [name |-> "Distance Running",    weights |-> Wt(25, 20, 30, 15, 10)]
          [] k = "golf"       -> [name |-> "Golf Swing",          weights |-> Wt(35, 20, 25, 12, 8)]
          [] k = "yoga"       -> [name |-> "Yoga",                weights |-> Wt(40, 5, 20, 30, 5)]
          [] k = "jumping"    -> [name |-> "Jump Training",       weights |-> Wt(25, 35, 20, 12, 8)]
          [] k = "swimming"   -> [name |-> "Swimming",            weights |-> Wt(35, 20, 25, 10, 10)]
          [] k = "cycling"    -> [name |-> "Cycling",             weights |-> Wt(30, 25, 25, 12, 8)]]

\* Members every object literal inherits from Object.prototype: a bracket
\* lookup SPORT_PATTERNS[key] finds them although they are not sports.
ObjectPrototypeKeys == {"constructor", "__proto__", "toString", "valueOf", "hasOwnProperty"}

\* SPORT_PATTERNS[key] is truthy
PatternTruthy(key) == key \in DOMAIN SPORT_PATTERNS \/ key \in ObjectPrototypeKeys

\* weights[k] || 0.2
DEFAULT_WEIGHT == 20

WeightOrDefault(weights, k) ==
    IF k \in DOMAIN weights /\ weights[k] # 0 THEN weights[k] ELSE DEFAULT_WEIGHT

\* Object.entries(rawScores).reduce((sum, [k, v]) => sum + v * weight, 0),
\* in hundredths
RECURSIVE WeightedSumFrom(_, _, _)
WeightedSumFrom(weights, rawScores, i) ==
    IF i > Len(Dims) THEN 0
    ELSE rawScores[Dims[i]] * WeightOrDefault(weights, Dims[i])
         + WeightedSumFrom(weights, rawScores, i + 1)

WeightedSum(weights, rawScores) == WeightedSumFrom(weights, rawScores, 1)

\* Math.round of a number of hundredths.  The sum is accumulated in binary
\* floating point: away from a tie the error cannot change the result, at
\* an exact tie (x.50) the accumulated sum lands on either side, so both
\* neighbours are outcomes.
MathRound(s100) ==
    IF s100 % 100 = 50
    THEN {s100 \div 100, s100 \div 100 + 1}
    ELSE {(s100 + 50) \div 100}

\* Math.min(100, Math.max(0, overall))
Clamp_None(overall) == overall

Clamp(overall) ==
    LET lo == IF overall > 0 THEN overall ELSE 0
    IN  IF lo < 100 THEN lo ELSE 100

\* the values analyzeVideo can return as overall for these weights and scores
Overall(weights, rawScores) ==
    {Clamp(o) : o \in MathRound(WeightedSum(weights, rawScores))}

(***************************************************************************)
(* generateInsights                                                        *)
(***************************************************************************)
MSG_FORM        == "Work on joint alignment - your form score indicates suboptimal positioning during key phases."
MSG_POWER       == "Power output is below average for your sport. Add plyometric or resistance exercises."
MSG_CONSISTENCY == "Movement variability is high. Focus on drilling the same technique repeatedly."
MSG_BALANCE     == "Centre of mass shifts detected. Single-leg balance work can help stabilise your base."
MSG_TIMING      == "Phase timing is off - practice slow-motion drills to reinforce the correct sequence."
MSG_KNEE_BENT   == "Knee bend is excessive at key moment. Check your stance width and foot placement."
MSG_KNEE_STRAIGHT == "Legs too straight - increase knee flexion for better shock absorption."
MSG_EXCELLENT(sportName) == "Excellent " \o sportName \o " form! Maintain this technique under fatigue."
MSG_CONSISTENT  == "Highly consistent movement patterns - great for competition repeatability."

LOW_SCORE == 65

HIGH_SCORE == 80

KNEE_MIN == 80

KNEE_MAX == 160

INSIGHT_CAP == 5

\* if (cond) insights.push(msg)
Push(insights, cond, msg) == IF cond THEN Append(insights, msg) ELSE insights

\* insights.slice(0, n)
Slice_KeepAll(insights, n) == insights

Slice_Last(insights, n) ==
    IF Len(insights) <= n THEN insights
    ELSE SubSeq(insights, Len(insights) - n + 1, Len(insights))

Slice(insights, n) ==
    IF Len(insights) <= n THEN insights ELSE SubSeq(insights, 1, n)

generateInsights(scores, metrics, sportName) ==
    LET i1 == Push(<<>>, scores.form < LOW_SCORE, MSG_FORM)
        i2 == Push(i1, scores.power < LOW_SCORE, MSG_POWER)
        i3 == Push(i2, scores.consistency < LOW_SCORE, MSG_CONSISTENCY)
        i4 == Push(i3, scores.balance < LOW_SCORE, MSG_BALANCE)
        i5 == Push(i4, scores.timing < LOW_SCORE, MSG_TIMING)
        i6 == Push(i5, metrics.kneeAngle < KNEE_MIN, MSG_KNEE_BENT)
        i7 == Push(i6, metrics.kneeAngle > KNEE_MAX, MSG_KNEE_STRAIGHT)
        i8 == Push(i7, scores.form >= HIGH_SCORE, MSG_EXCELLENT(sportName))
        i9 == Push(i8, scores.consistency >= HIGH_SCORE, MSG_CONSISTENT)
    IN  Slice(i9, INSIGHT_CAP)

(***************************************************************************)
(* analyzeVideo                                                            *)
(***************************************************************************)
\* const { weights } = pattern is undefined when the lookup found an
\* inherited member instead of a sport: weights[k] then throws a TypeError
AnalyzeThrows(sportKey) ==
    sportKey \notin DOMAIN SPORT_PATTERNS /\ sportKey \in ObjectPrototypeKeys

\* SPORT_PATTERNS[sportKey] || SPORT_PATTERNS.running
PatternOf(sportKey) ==
    IF sportKey \in DOMAIN SPORT_PATTERNS
    THEN SPORT_PATTERNS[sportKey]
    ELSE SPORT_PATTERNS["running"]

\* The results analyzeVideo can return, given the values the Math.random()
\* calls produced (draw: the five raw scores, the metrics, the frame count).
analyzeVideo(sportKey, draw) ==
    LET pattern == PatternOf(sportKey)
    IN  {[sport      |-> pattern.name,
          sportKey   |-> sportKey,
          overall    |-> o,
          scores     |-> draw.scores,
          metrics    |-> draw.metrics,
          insights   |-> generateInsights(draw.scores, draw.metrics, pattern.name),
          frameCount |-> draw.frameCount]
         : o \in Overall(pattern.weights, draw.scores)}

(***************************************************************************)
(* The scoring functions on their own: inputs over the whole documented    *)
(* range of raw scores (0..100), registry and non-registry weight vectors. *)
(***************************************************************************)
RawSamples == {0, 64, 65, 80, 100}

RawVectors == [DimSet -> RawSamples]

KneeSamples == {70, 79, 80, 120, 160, 161}

SportKeySamples == {"yoga", "running", "tennis", "sprinting", "curling", "", "constructor"}

\* weight vectors outside the registry: entries missing or zero (the 0.2
\* fallback), sums above and below 1.0, negative entries
ExtraWeights ==
    {<<>>,
     Wt(0, 0, 0, 0, 0),
     Wt(90, 90, 90, 90, 90),
     Wt(30, 20, 20, 15, 14),
     Wt(-30, -20, -20, -15, -15),
     [form |-> 50, power |-> 50]}

EngineIdle ==
    [pc |-> "idle", sportKey |-> "", weights |-> <<>>, scores |-> Wt(0, 0, 0, 0, 0),
     kneeAngle |-> 0, sportName |-> "", overall |-> 0, insights |-> <<>>]

EngineScore ==
    /\ engine.pc = "input"
    /\ \E k \in SportKeySamples :
         IF AnalyzeThrows(k)
         THEN engine' = [engine EXCEPT !.pc = "threw", !.sportKey = k]
         ELSE \E o \in Overall(PatternOf(k).weights, engine.scores) :
                 engine' = [engine EXCEPT !.pc = "scored", !.sportKey = k,
                                          !.weights = PatternOf(k).weights,
                                          !.overall = o]
    /\ UNCHANGED sysVars

EngineScoreWith ==
    /\ engine.pc = "input"
    /\ \E w \in ExtraWeights :
         \E o \in Overall(w, engine.scores) :
            engine' = [engine EXCEPT !.pc = "scored", !.sportKey = "",
                                     !.weights = w, !.overall = o]
    /\ UNCHANGED sysVars

EngineInsights ==
    /\ engine.pc = "input"
    /\ \E knee \in KneeSamples, k \in {"yoga", "curling"} :
         engine' = [engine EXCEPT
             !.pc = "advised", !.kneeAngle = knee, !.sportName = PatternOf(k).name,
             !.insights = generateInsights(engine.scores, [kneeAngle |-> knee],
                                           PatternOf(k).name)]
    /\ UNCHANGED sysVars

NextEngine == EngineScore \/ EngineScoreWith \/ EngineInsights

(***************************************************************************)
(* JSON.stringify / JSON.parse and parseSession                            *)
(* A JSON text is its kind and its list of members, in the order written:  *)
(* <<key, value>> pairs for an object, the items for an array.             *)
(***************************************************************************)
ScoreKeys == Dims

MetricKeys == <<"kneeAngle", "hipAngle", "armAngle", "speedIndex", "balance">>

JsNull == [js |-> "null"]

EmptyText == [kind |-> "empty", members |-> <<>>]

NullText == [kind |-> "null", members |-> <<>>]

\* JSON.stringify of an object whose keys were inserted in the order keys
StringifyObject(obj, keys) ==
    [kind |-> "object", members |-> [i \in 1..Len(keys) |-> <<keys[i], obj[keys[i]]>>]]

\* JSON.stringify of an array
StringifyArray(arr) == [kind |-> "array", members |-> arr]

JSONparse_DropLast(text) ==
    CASE text.kind = "object" ->
           LET n == Len(text.members) - 1
           IN  [k \in {text.members[i][1] : i \in 1..n} |->
                   text.members[CHOOSE i \in 1..n : text.members[i][1] = k][2]]
      [] text.kind = "array" -> SubSeq(text.members, 1, Len(text.members) - 1)
      [] OTHER -> JsNull

JSONparse(text) ==
    CASE text.kind = "object" ->
           [k \in {text.members[i][1] : i \in 1..Len(text.members)} |->
               text.members[CHOOSE i \in 1..Len(text.members) :
                               /\ text.members[i][1] = k
                               /\ \A j \in (i+1)..Len(text.members) :
                                     text.members[j][1] # k][2]]
      [] text.kind = "array" -> text.members
      [] OTHER -> JsNull

\* a column that is NULL or the empty string is falsy
TextFalsy(text) == text.kind = "empty"

parseSession(row) ==
    [row EXCEPT
        !.scores   = JSONparse(IF TextFalsy(row.scores) THEN NullText ELSE row.scores),
        !.metrics  = JSONparse(IF TextFalsy(row.metrics) THEN NullText ELSE row.metrics),
        !.insights = JSONparse(IF TextFalsy(row.insights)
                               THEN StringifyArray(<<>>) ELSE row.insights)]

(***************************************************************************)
(* The values the Math.random() calls of analyzeVideo can produce.         *)
(***************************************************************************)
FORM_RANGE == 60..95

POWER_RANGE == 55..95

CONSISTENCY_RANGE == 58..95

BALANCE_RANGE == 62..95

TIMING_RANGE == 57..95

KNEE_RANGE == 75..105

Draw(f, p, c, b, t, knee, hip, arm, speed, bal, frames) ==
    [scores  |-> Wt(f, p, c, b, t),
     metrics |-> [kneeAngle |-> knee, hipAngle |-> hip, armAngle |-> arm,
                  speedIndex |-> speed, balance |-> bal],
     frameCount |-> frames]

DrawInRange(d) ==
    /\ d.scores.form \in FORM_RANGE
    /\ d.scores.power \in POWER_RANGE
    /\ d.scores.consistency \in CONSISTENCY_RANGE
    /\ d.scores.balance \in BALANCE_RANGE
    /\ d.scores.timing \in TIMING_RANGE
    /\ d.metrics.kneeAngle \in KNEE_RANGE
    /\ d.metrics.hipAngle \in 155..195
    /\ d.metrics.armAngle \in 70..130
    /\ d.metrics.balance \in 60..95
    /\ d.frameCount \in 180..300

\* every random number 0: five low scores and a bent knee, six rules fire
DrawLow == Draw(60, 55, 58, 62, 57, 75, 155, 70, "1.5", 60, 180)

\* every random number about one half: no rule fires
DrawMid == Draw(78, 75, 77, 79, 76, 90, 175, 100, "3.3", 78, 240)

(***************************************************************************)
(* Requests                                                                *)
(***************************************************************************)
\* the sport of the request body and what Math.random() then produced
AnalyzeInputs ==
    {in \in {<<"yoga", DrawLow>>, <<"curling", DrawMid>>, <<"", DrawMid>>,
             <<"constructor", DrawLow>>} : DrawInRange(in[2])}

AthleteIdInputs == {0, 101}

ProfileIdInputs == {0, 101}

LimitInputs == {<<>>, <<-1>>, <<1>>}

DEFAULT_LIMIT == 20

Body(name, age, height, weight, sport, level) ==
    [name |-> name, age |-> age, height |-> height, weight |-> weight,
     sport |-> sport, level |-> level]

ProfileBodies ==
    {Body(<<"Ann">>, <<20>>, <<170>>, <<60>>, <<"yoga">>, <<"pro">>),
     Body(<<"Ann">>, <<30>>, <<>>, <<0>>, <<"">>, <<>>),
     Body(<<"Ann">>, <<0>>, <<170>>, <<>>, <<>>, <<"pro">>),
     Body(<<"">>, <<20>>, <<>>, <<>>, <<>>, <<>>),
     Body(<<>>, <<30>>, <<>>, <<>>, <<>>, <<>>)}

\* !name, for a string that may be absent
StrFalsy(s) == s = <<>> \/ s[1] = ""

\* !n, for a number that may be absent
NumFalsy(n) == n = <<>> \/ n[1] = 0

\* v || null
StrOrNull(s) == IF StrFalsy(s) THEN <<>> ELSE s

NumOrNull(n) == IF NumFalsy(n) THEN <<>> ELSE n

NoReq == [op |-> "none"]

NoRes == [status |-> 0]

NoIo == [op |-> "none", writes |-> 0, failed |-> FALSE]

UNAVAILABLE == [status |-> 503, error |-> "Database unavailable."]

Put_Truncate(table, id, row) == [k \in {id} |-> row]

Put(table, id, row) ==
    [k \in DOMAIN table \cup {id} |-> IF k = id THEN row ELSE table[k]]

Min(a, b) == IF a < b THEN a ELSE b

(***************************************************************************)
(* Time passes: datetime('now') has a resolution of one second, so any     *)
(* number of requests can be served at one value of the clock.             *)
(***************************************************************************)
Tick ==
    /\ clock < MaxClock
    /\ clock' = clock + 1
    /\ UNCHANGED <<db, athletes, sessions, uuid, req, res, io, engine, inflight>>

(***************************************************************************)
(* POST /api/analyze                                                       *)
(* requireMulter always passes: without multer upload is null and the      *)
(* module throws on upload.single while the routes are being defined.      *)
(***************************************************************************)
\* req.body.sport && SPORT_PATTERNS[req.body.sport] ? req.body.sport : 'running'
SportKeyOf(sport) ==
    IF sport # "" /\ PatternTruthy(sport) THEN sport ELSE "running"

\* the INSERT INTO sessions statement; created_at takes its default
SessionRow(sessionId, athleteId, result, filePath, now) ==
    [id          |-> sessionId,
     athlete_id  |-> athleteId,
     sport       |-> result.sport,
     overall     |-> result.overall,
     scores      |-> StringifyObject(result.scores, ScoreKeys),
     metrics     |-> StringifyObject(result.metrics, MetricKeys),
     insights    |-> StringifyArray(result.insights),
     file_path   |-> filePath,
     frame_count |-> result.frameCount,
     created_at  |-> now]

\* try { ...run(...) } catch (e) { console.error(...) }, then res.json:
\* the status the request ends with, given whether run() threw
AnalyzeStatus_Propagate(insertFailed) == IF insertFailed THEN 500 ELSE 200

AnalyzeStatus(insertFailed) == 200

PostAnalyze ==
    \E in \in AnalyzeInputs, athleteId \in AthleteIdInputs, insertFails \in BOOLEAN :
        LET sport    == in[1]
            draw     == in[2]
            sportKey == SportKeyOf(sport)
            filePath == <<>>
            request  == [op |-> "analyze", sport |-> sport, athleteId |-> athleteId]
        IN  IF AnalyzeThrows(sportKey)
            THEN /\ req' = request
                 /\ res' = [status |-> 500, error |-> "Cannot read properties of undefined"]
                 /\ io' = NoIo
                 /\ UNCHANGED <<db, athletes, sessions, clock, uuid, engine, inflight>>
            ELSE /\ uuid < MaxUuid
                 /\ \E result \in analyzeVideo(sportKey, draw) :
                      LET sessionId == uuid + 1
                          row == SessionRow(sessionId, athleteId, result, filePath, clock)
                          failed == db /\ insertFails
                      IN  /\ uuid' = sessionId
                          /\ sessions' = IF db /\ ~insertFails
                                         THEN Put(sessions, sessionId, row)
                                         ELSE sessions
                          /\ io' = [op |-> "insert", writes |-> IF db THEN 1 ELSE 0,
                                    failed |-> failed, computed |-> result]
                          /\ req' = request
                          /\ res' = IF AnalyzeStatus(failed) = 200
                                    THEN [status |-> 200, sessionId |-> sessionId,
                                          result |-> result]
                                    ELSE [status |-> 500, error |-> "DB insert failed"]
                 /\ UNCHANGED <<db, athletes, clock, engine, inflight>>

(***************************************************************************)
(* GET /api/sessions/:id                                                   *)
(***************************************************************************)
GetSession ==
    \E id \in 1..MaxUuid :
        /\ req' = [op |-> "getSession", id |-> id]
        /\ res' = IF ~db THEN UNAVAILABLE
                  ELSE IF id \notin DOMAIN sessions
                       THEN [status |-> 404, error |-> "Session not found."]
                       ELSE [status |-> 200, session |-> parseSession(sessions[id])]
        /\ io' = NoIo
        /\ UNCHANGED <<db, athletes, sessions, clock, uuid, engine, inflight>>

(***************************************************************************)
(* GET /api/sessions                                                       *)
(***************************************************************************)
\* WHERE athlete_id = ?  (a NULL athlete_id, 0 here, matches no value)
Selected(athleteId) ==
    IF athleteId # 0
    THEN {id \in DOMAIN sessions : sessions[id].athlete_id = athleteId}
    ELSE DOMAIN sessions

\* ORDER BY created_at DESC: rows with equal created_at come in any order
OrderByCreatedDesc(ids) ==
    {s \in [1..Cardinality(ids) -> ids] :
        /\ \A i, j \in DOMAIN s : i # j => s[i] # s[j]
        /\ \A i, j \in DOMAIN s :
              i < j => sessions[s[i]].created_at >= sessions[s[j]].created_at}

\* LIMIT ?: a negative limit is no limit
SqlLimit_OffByOne(rows, n) ==
    IF n < 0 THEN rows ELSE SubSeq(rows, 1, Min(n + 1, Len(rows)))

SqlLimit(rows, n) ==
    IF n < 0 THEN rows ELSE SubSeq(rows, 1, Min(n, Len(rows)))

ListSessions ==
    \E athleteId \in AthleteIdInputs, limitIn \in LimitInputs :
        LET limit == IF limitIn = <<>> THEN DEFAULT_LIMIT ELSE limitIn[1]
        IN  /\ req' = [op |-> "listSessions", athleteId |-> athleteId, limit |-> limit]
            /\ IF ~db
               THEN res' = UNAVAILABLE
               ELSE \E order \in OrderByCreatedDesc(Selected(athleteId)) :
                       LET rows == SqlLimit(order, limit)
                       IN  res' = [status |-> 200,
                                   rows |-> [i \in 1..Len(rows) |->
                                                parseSession(sessions[rows[i]])]]
            /\ io' = NoIo
            /\ UNCHANGED <<db, athletes, sessions, clock, uuid, engine, inflight>>

(***************************************************************************)
(* POST /api/profile                                                       *)
(***************************************************************************)
\* INSERT INTO athletes ... ON CONFLICT(id) DO UPDATE SET ...: a new row
\* takes both timestamps from datetime('now'); an existing row keeps its
\* created_at and has every other column overwritten
Upsert_Torn(table, athleteId, body, now) ==
    LET old == table[athleteId]
        had == athleteId \in DOMAIN table
    IN  Put(table, athleteId,
            [id         |-> athleteId,
             name       |-> body.name,
             age        |-> NumOrNull(body.age),
             height_cm  |-> NumOrNull(body.height),
             weight_kg  |-> IF had THEN old.weight_kg ELSE NumOrNull(body.weight),
             sport      |-> IF had THEN old.sport ELSE StrOrNull(body.sport),
             level      |-> IF had THEN old.level ELSE StrOrNull(body.level),
             created_at |-> IF had THEN old.created_at ELSE now,
             updated_at |-> now])

Upsert_KeepOmitted(table, athleteId, body, now) ==
    LET old  == table[athleteId]
        had  == athleteId \in DOMAIN table
        numOr(v, f) == IF had /\ v = <<>> THEN old[f] ELSE NumOrNull(v)
        strOr(v, f) == IF had /\ v = <<>> THEN old[f] ELSE StrOrNull(v)
    IN  Put(table, athleteId,
            [id         |-> athleteId,
             name       |-> body.name,
             age        |-> numOr(body.age, "age"),
             height_cm  |-> numOr(body.height, "height_cm"),
             weight_kg  |-> numOr(body.weight, "weight_kg"),
             sport      |-> strOr(body.sport, "sport"),
             level      |-> strOr(body.level, "level"),
             created_at |-> IF had THEN old.created_at ELSE now,
             updated_at |-> now])

Upsert_Replace(table, athleteId, body, now) ==
    Put(table, athleteId,
        [id         |-> athleteId,
         name       |-> body.name,
         age        |-> NumOrNull(body.age),
         height_cm  |-> NumOrNull(body.height),
         weight_kg  |-> NumOrNull(body.weight),
         sport      |-> StrOrNull(body.sport),
         level      |-> StrOrNull(body.level),
         created_at |-> now,
         updated_at |-> now])

Upsert(table, athleteId, body, now) ==
    Put(table, athleteId,
        [id         |-> athleteId,
         name       |-> body.name,
         age        |-> NumOrNull(body.age),
         height_cm  |-> NumOrNull(body.height),
         weight_kg  |-> NumOrNull(body.weight),
         sport      |-> StrOrNull(body.sport),
         level      |-> StrOrNull(body.level),
         created_at |-> IF athleteId \in DOMAIN table
                        THEN table[athleteId].created_at ELSE now,
         updated_at |-> now])

\* if (!name) return res.status(400)
NameMissing_OnlyAbsent(body) == body.name = <<>>

NameMissing(body) == StrFalsy(body.name)

ProfileHandler(body, id, writeFails) ==
        LET request == [op |-> "postProfile", body |-> body, id |-> id]
        IN  /\ req' = request
            /\ IF ~db
               THEN /\ res' = UNAVAILABLE
                    /\ io' = NoIo
                    /\ UNCHANGED <<athletes, uuid>>
               ELSE IF NameMissing(body)
               THEN /\ res' = [status |-> 400, error |-> "name is required."]
                    /\ io' = NoIo
                    /\ UNCHANGED <<athletes, uuid>>
               ELSE LET athleteId == IF id # 0 THEN id ELSE uuid + 1
                    IN  /\ id = 0 => uuid < MaxUuid
                        /\ uuid' = IF id # 0 THEN uuid ELSE uuid + 1
                        /\ io' = [op |-> "upsert", writes |-> 1, failed |-> writeFails]
                        /\ IF writeFails
                           THEN /\ athletes' = athletes
                                /\ res' = [status |-> 500, error |-> "write failed"]
                           ELSE /\ athletes' = Upsert(athletes, athleteId, body, clock)
                                /\ res' = [status |-> 200, id |-> athleteId,
                                           message |-> "Profile saved."]
            /\ UNCHANGED <<db, sessions, clock, engine>>

PostProfile ==
    \E body \in ProfileBodies, id \in ProfileIdInputs, writeFails \in BOOLEAN :
        /\ ProfileHandler(body, id, writeFails)
        /\ UNCHANGED inflight

(***************************************************************************)
(* Profile requests in flight.  express.json() reads a request body off    *)
(* the socket asynchronously, so several requests can be parsed and        *)
(* waiting at once; the route handler itself has no await and the          *)
(* better-sqlite3 statement is a synchronous call, so each handler runs    *)
(* from its first line to res.json() before the event loop starts the      *)
(* next one.                                                               *)
(***************************************************************************)
MaxInflight == 2

\* two clients that disagree on every column, and one without a name
ConcurrentBodies ==
    {Body(<<"Ann">>, <<20>>, <<170>>, <<60>>, <<"yoga">>, <<"pro">>),
     Body(<<"Bo">>, <<30>>, <<>>, <<>>, <<>>, <<>>),
     Body(<<>>, <<30>>, <<>>, <<>>, <<>>, <<>>)}

\* uuidv4() never hands out an id twice: requests meet on a row only
\* through an id the clients send
ConcurrentIds == {101}

Waiting == {r \in inflight : r.status = 0}

\* body parsed, handler queued
Accept ==
    \E body \in ConcurrentBodies, id \in ConcurrentIds :
        /\ Cardinality(inflight) < MaxInflight
        /\ inflight' = inflight \cup
               {[body |-> body, id |-> id, status |-> 0, behind |-> 0]}
        /\ UNCHANGED <<db, athletes, sessions, clock, uuid, req, res, io, engine>>

\* the event loop runs the handler of one waiting request to completion
HandleProfile ==
    \E r \in Waiting, writeFails \in BOOLEAN :
        /\ ProfileHandler(r.body, r.id, writeFails)
        /\ inflight' = (inflight \ {r}) \cup
               {[r EXCEPT !.status = res'.status,
                          !.behind = Cardinality(Waiting \ {r})]}

\* response flushed, connection done
Close ==
    \E r \in inflight :
        /\ r.status # 0
        /\ inflight' = inflight \ {r}
        /\ UNCHANGED <<db, athletes, sessions, clock, uuid, req, res, io, engine>>

(***************************************************************************)
(* GET /api/profile/:id                                                    *)
(***************************************************************************)
GetProfile ==
    \E id \in (ProfileIdInputs \ {0}) \cup 1..MaxUuid :
        /\ req' = [op |-> "getProfile", id |-> id]
        /\ res' = IF ~db THEN UNAVAILABLE
                  ELSE IF id \notin DOMAIN athletes
                       THEN [status |-> 404, error |-> "Athlete not found."]
                       ELSE [status |-> 200, profile |-> athletes[id]]
        /\ io' = NoIo
        /\ UNCHANGED <<db, athletes, sessions, clock, uuid, engine, inflight>>

(***************************************************************************)
(* The server                                                              *)
(***************************************************************************)
Init ==
    /\ db \in BOOLEAN
    /\ athletes = <<>>
    /\ sessions = <<>>
    /\ clock = 0
    /\ uuid = 0
    /\ req = NoReq
    /\ res = NoRes
    /\ io = NoIo
    /\ engine = EngineIdle
    /\ inflight = {}

Next ==
    \/ Tick
    \/ PostAnalyze
    \/ GetSession
    \/ ListSessions
    \/ PostProfile
    \/ GetProfile

Spec == Init /\ [][Next]_vars

\* The session store and the profile store are separate tables that share
\* only the clock: each with the routes that read or write it.
NextSessions ==
    \/ Tick
    \/ PostAnalyze
    \/ GetSession
    \/ ListSessions

SpecSessions == Init /\ [][NextSessions]_vars

NextProfiles ==
    \/ Tick
    \/ PostProfile
    \/ GetProfile

SpecProfiles == Init /\ [][NextProfiles]_vars

\* The profile route under overlapping requests.
NextConcurrent ==
    \/ Tick
    \/ Accept
    \/ HandleProfile
    \/ Close

SpecConcurrent == Init /\ [][NextConcurrent]_vars

(***************************************************************************)
(* The scoring functions applied to inputs of their whole domain           *)
(***************************************************************************)
InitEngine ==
    /\ db = TRUE
    /\ athletes = <<>>
    /\ sessions = <<>>
    /\ clock = 0
    /\ uuid = 0
    /\ req = NoReq
    /\ res = NoRes
    /\ io = NoIo
    /\ inflight = {}
    /\ \E scores \in RawVectors :
          engine = [EngineIdle EXCEPT !.pc = "input", !.scores = scores]

SpecEngine == InitEngine /\ [][NextEngine]_vars

(***************************************************************************)
(* Properties of the scoring functions (checked under SpecEngine)          *)
(***************************************************************************)
AllScores(v) == Wt(v, v, v, v, v)

InsightsInclude(msg) == \E i \in DOMAIN engine.insights : engine.insights[i] = msg

\* C1: whenever the analysis returns an overall score - for a registered
\* sport key, an unregistered one, or a weight vector whose entries are
\* missing, zero or do not sum to 1.0 - that score is an integer of 0..100,
\* for every raw score vector with fields in 0..100.
C1_OverallInRange ==
    engine.pc = "scored" => engine.overall \in 0..100

\* three weights fall back to 0.2, the vector sums to 1.6, the raw sum 160
\* is clamped to 100
C1_Witness ==
    /\ engine.pc = "scored"
    /\ engine.weights = [form |-> 50, power |-> 50]
    /\ engine.scores = AllScores(100)
    /\ engine.overall = 100

\* the rule table: condition and message of each rule, in evaluation order
RuleFires(i, scores, knee) ==
    CASE i = 1 -> scores.form < 65
      [] i = 2 -> scores.power < 65
      [] i = 3 -> scores.consistency < 65
      [] i = 4 -> scores.balance < 65
      [] i = 5 -> scores.timing < 65
      [] i = 6 -> knee < 80
      [] i = 7 -> knee > 160
      [] i = 8 -> scores.form >= 80
      [] i = 9 -> scores.consistency >= 80

RuleMessage(i, sportName) ==
    CASE i = 1 -> MSG_FORM
      [] i = 2 -> MSG_POWER
      [] i = 3 -> MSG_CONSISTENCY
      [] i = 4 -> MSG_BALANCE
      [] i = 5 -> MSG_TIMING
      [] i = 6 -> MSG_KNEE_BENT
      [] i = 7 -> MSG_KNEE_STRAIGHT
      [] i = 8 -> MSG_EXCELLENT(sportName)
      [] i = 9 -> MSG_CONSISTENT

FiredRules(scores, knee) ==
    SelectSeq(<<1, 2, 3, 4, 5, 6, 7, 8, 9>>, LAMBDA i : RuleFires(i, scores, knee))

\* C2: generateInsights returns exactly the messages of the rules that
\* fire, in the order form<65, power<65, consistency<65, balance<65,
\* timing<65, knee<80, knee>160, form>=80, consistency>=80, cut to the first
\* five: never more than 5 entries, and none when no rule fires.
C2_InsightsAreFirstFiveFired ==
    engine.pc = "advised" =>
        LET fired == FiredRules(engine.scores, engine.kneeAngle)
            n     == IF Len(fired) < 5 THEN Len(fired) ELSE 5
        IN  /\ engine.insights = [j \in 1..n |-> RuleMessage(fired[j], engine.sportName)]
            /\ Len(engine.insights) <= 5
            /\ (Len(fired) = 0 => engine.insights = <<>>)

\* six rules fire (three low scores, the straight knee, both positive cues)
\* and the sixth message is cut
C2_Witness ==
    /\ engine.pc = "advised"
    /\ Len(FiredRules(engine.scores, engine.kneeAngle)) = 6
    /\ engine.scores.form = 100
    /\ engine.kneeAngle = 161
    /\ Len(engine.insights) = 5
    /\ ~InsightsInclude(MSG_CONSISTENT)

\* C3 (as claimed): whenever the knee angle is 70 the insights include the
\* excessive-knee-bend warning, for every combination of the raw scores.
C3_KneeWarningAlways ==
    (engine.pc = "advised" /\ engine.kneeAngle = 70) => InsightsInclude(MSG_KNEE_BENT)

\* C3 (amended): whenever the knee angle is 70 the insights include the
\* excessive-knee-bend warning, except when all five raw scores are below
\* 65: the five score cues then fill the list and the warning is cut.
C3_KneeWarningUnlessCrowded ==
    (engine.pc = "advised" /\ engine.kneeAngle = 70) =>
        (InsightsInclude(MSG_KNEE_BENT) <=> ~(\A d \in DimSet : engine.scores[d] < 65))

\* four score cues and then the warning, in the fifth and last place
C3_Witness ==
    /\ engine.pc = "advised"
    /\ engine.kneeAngle = 70
    /\ engine.scores = [AllScores(64) EXCEPT !.timing = 65]
    /\ Len(engine.insights) = 5
    /\ engine.insights[5] = MSG_KNEE_BENT

\* five weights, none negative, summing to 100 hundredths
WeightsWellFormed(weights) ==
    /\ DOMAIN weights = DimSet
    /\ \A d \in DimSet : weights[d] >= 0
    /\ weights.form + weights.power + weights.consistency
         + weights.balance + weights.timing = 100

\* C5: each of the twelve entries of SPORT_PATTERNS has five non-negative
\* weights that sum to 1.0 (100 hundredths); so do the weights the analysis
\* uses for a registered sport.
C5_RegistryWeightsSumToOne ==
    /\ Cardinality(DOMAIN SPORT_PATTERNS) = 12
    /\ \A k \in DOMAIN SPORT_PATTERNS : WeightsWellFormed(SPORT_PATTERNS[k].weights)
    /\ (engine.pc = "scored" /\ engine.sportKey \in DOMAIN SPORT_PATTERNS)
          => WeightsWellFormed(engine.weights)

\* yoga, the most uneven entry: five scores of 80 give an overall of 80
C5_Witness ==
    /\ engine.pc = "scored"
    /\ engine.sportKey = "yoga"
    /\ engine.weights = SPORT_PATTERNS["yoga"].weights
    /\ engine.scores = AllScores(80)
    /\ engine.overall = 80

(***************************************************************************)
(* Properties of the server: the session routes under SpecSessions, the    *)
(* profile routes under SpecProfiles, both stores together under Spec      *)
(***************************************************************************)
\* C4: for a sport key that is not one of the twelve registry entries the
\* analysis answers with the display name and the weights of 'running'
\* (Distance Running) and never with an error.
C4_UnknownSportUsesDefault ==
    (req.op = "analyze" /\ req.sport \notin DOMAIN SPORT_PATTERNS) =>
        /\ res.status = 200
        /\ res.result.sport = "Distance Running"
        /\ res.result.overall
             \in Overall(SPORT_PATTERNS["running"].weights, res.result.scores)

\* a step of POST /api/profile that wrote the row of athlete id
UpsertStep(id) ==
    /\ PostProfile
    /\ req'.op = "postProfile"
    /\ res'.status = 200
    /\ res'.id = id

\* C6 (as claimed): a second upsert with the same id that changes age leaves
\* the age of the second call, the createdAt of the first call and an
\* updatedAt later than the one the first call left.
C6_SecondUpsertRefreshes ==
    [][\A id \in DOMAIN athletes :
          (UpsertStep(id) /\ req'.body.age # athletes[id].age) =>
              /\ athletes'[id].age = req'.body.age
              /\ athletes'[id].created_at = athletes[id].created_at
              /\ athletes'[id].updated_at > athletes[id].updated_at]_vars

\* C6 (amended): the first upsert of an id stamps createdAt and updatedAt
\* with its own time; a later upsert of that id that changes age stores the
\* age of that call (null when it is omitted or 0), keeps createdAt, and
\* sets updatedAt to its own time, which is never earlier than the value
\* left before and later exactly when the clock has advanced by a second.
C6_SecondUpsertRestamps ==
    [][/\ \A id \in ((ProfileIdInputs \ {0}) \cup 1..MaxUuid) \ DOMAIN athletes :
             UpsertStep(id) =>
                 /\ athletes'[id].created_at = clock
                 /\ athletes'[id].updated_at = clock
       /\ \A id \in DOMAIN athletes :
             (UpsertStep(id) /\ req'.body.age # athletes[id].age) =>
                 /\ athletes'[id].age = NumOrNull(req'.body.age)
                 /\ athletes'[id].created_at = athletes[id].created_at
                 /\ athletes'[id].updated_at = clock
                 /\ athletes'[id].updated_at >= athletes[id].updated_at
                 /\ (athletes'[id].updated_at > athletes[id].updated_at
                       <=> clock > athletes[id].updated_at)]_vars

\* created in second 0 with age 20, upserted again in second 1 with age 30
C6_Witness ==
    /\ req.op = "postProfile"
    /\ res.status = 200
    /\ res.id = 101
    /\ req.body.age = <<30>>
    /\ athletes[101].age = <<30>>
    /\ athletes[101].created_at = 0
    /\ athletes[101].updated_at = 1

ListAnswered == req.op = "listSessions" /\ res.status = 200 /\ req.athleteId # 0

\* C7 (as claimed): list(athleteId, limit), limit being a count, returns at
\* most limit sessions, strictly ordered by creation time descending, all
\* of athleteId.
C7_ListStrictlyDescending ==
    (ListAnswered /\ req.limit >= 0) =>
        /\ Len(res.rows) <= req.limit
        /\ \A i, j \in DOMAIN res.rows :
              i < j => res.rows[i].created_at > res.rows[j].created_at
        /\ \A i \in DOMAIN res.rows : res.rows[i].athlete_id = req.athleteId

\* C7 (amended): list(athleteId, limit) with limit >= 0 returns at most
\* limit sessions (a negative limit returns every session of the athlete),
\* ordered by creation time descending where sessions created within the
\* same second have equal creation times and come in either order, and
\* every returned session's athlete reference equals athleteId.
C7_ListDescendingWithTies ==
    ListAnswered =>
        /\ req.limit >= 0 => Len(res.rows) <= req.limit
        /\ req.limit < 0 => Len(res.rows) = Cardinality(Selected(req.athleteId))
        /\ \A i, j \in DOMAIN res.rows :
              i < j => res.rows[i].created_at >= res.rows[j].created_at
        /\ \A i, j \in DOMAIN res.rows : i # j => res.rows[i].id # res.rows[j].id
        /\ \A i \in DOMAIN res.rows :
              /\ res.rows[i].id \in Selected(req.athleteId)
              /\ res.rows[i].athlete_id = req.athleteId

\* two sessions of athlete 101 from different seconds:
\* limit 1 returns the newer session of 101 only
C7_Witness ==
    /\ ListAnswered
    /\ req.athleteId = 101
    /\ req.limit = 1
    /\ Cardinality(Selected(101)) = 2
    /\ Len(res.rows) = 1
    /\ res.rows[1].created_at = 1
    /\ \E id \in Selected(101) : sessions[id].created_at = 0

\* C8: when the session insert fails, or there is no database, the analyze
\* request still answers 200 with a session id and the full computed
\* result; nothing is stored and the insert is not tried again.
C8_InsertFailureAbsorbed ==
    (req.op = "analyze" /\ io.op = "insert" /\ (io.failed \/ ~db)) =>
        /\ res.status = 200
        /\ res.sessionId = uuid
        /\ res.result = io.computed
        /\ \E in \in AnalyzeInputs :
              /\ in[1] = req.sport
              /\ res.result \in analyzeVideo(SportKeyOf(req.sport), in[2])
        /\ io.writes <= 1
        /\ res.sessionId \notin DOMAIN sessions

C8_Witness ==
    /\ req.op = "analyze"
    /\ db
    /\ io.op = "insert"
    /\ io.failed
    /\ res.status = 200
    /\ Len(res.result.insights) = 5

\* a step of POST /api/analyze whose insert went through
InsertStep ==
    /\ PostAnalyze
    /\ req'.op = "analyze"
    /\ io'.op = "insert"
    /\ db
    /\ ~io'.failed

\* the session carries the athlete reference and the result of the analysis
SameAnalysis(session, athleteId, result) ==
    /\ session.athlete_id = athleteId
    /\ session.overall = result.overall
    /\ session.scores = result.scores
    /\ session.metrics = result.metrics
    /\ session.insights = result.insights

\* C9: an analysis with an athleteId, with or without a profile of that id,
\* stores the session; the row is kept as written; and a get with the
\* session id answers 200 with a session whose athlete reference, overall,
\* scores, metrics and insights are those of the analysis.
C9_DanglingSessionRetrievable ==
    [][/\ InsertStep =>
             /\ res'.sessionId \in DOMAIN sessions'
             /\ res'.sessionId \notin DOMAIN sessions
             /\ SameAnalysis(parseSession(sessions'[res'.sessionId]),
                             req'.athleteId, res'.result)
       /\ \A id \in DOMAIN sessions :
             id \in DOMAIN sessions' /\ sessions'[id] = sessions[id]
       /\ \A id \in DOMAIN sessions :
             (GetSession /\ req'.op = "getSession" /\ req'.id = id) =>
                 /\ res'.status = 200
                 /\ res'.session.id = id
                 /\ SameAnalysis(res'.session, sessions[id].athlete_id,
                                 [overall  |-> sessions[id].overall,
                                  scores   |-> JSONparse(sessions[id].scores),
                                  metrics  |-> JSONparse(sessions[id].metrics),
                                  insights |-> JSONparse(sessions[id].insights)])]_vars

\* the session of athlete 101, who has no profile, fetched by its id
C9_Witness ==
    /\ req.op = "getSession"
    /\ res.status = 200
    /\ res.session.athlete_id = 101
    /\ 101 \notin DOMAIN athletes
    /\ res.session.scores = DrawLow.scores
    /\ res.session.metrics = DrawLow.metrics
    /\ Len(res.session.insights) = 5

\* C10: a profile upsert whose name is missing or empty is refused with the
\* validation error (400) when the profile store exists, and in every case
\* draws no identifier and leaves the athletes table as it was.
C10_MissingNameRejected ==
    [][(PostProfile /\ req'.op = "postProfile" /\ StrFalsy(req'.body.name)) =>
          /\ db => res'.status = 400
          /\ res'.status # 200
          /\ uuid' = uuid
          /\ athletes' = athletes]_vars

\* an empty name sent for the existing profile 101
C10_Witness ==
    /\ req.op = "postProfile"
    /\ req.body.name = <<"">>
    /\ req.id = 101
    /\ res.status = 400
    /\ 101 \in DOMAIN athletes

\* C11: a session row appears only in a step of POST /api/analyze, one row
\* per step, under the fresh id that step answers with and stamped with the
\* time of that step; from then on no step of any route - analyze, session
\* get or list, profile upsert or get - changes a field of it or removes it.
C11_SessionsImmutable ==
    [][/\ \A id \in DOMAIN sessions :
             id \in DOMAIN sessions' /\ sessions'[id] = sessions[id]
       /\ (DOMAIN sessions' # DOMAIN sessions) =>
             /\ InsertStep
             /\ DOMAIN sessions' = DOMAIN sessions \cup {res'.sessionId}
             /\ res'.sessionId = uuid'
             /\ uuid' = uuid + 1
             /\ sessions'[res'.sessionId].id = res'.sessionId
             /\ sessions'[res'.sessionId].created_at = clock]_vars

\* the session written in second 0 is still there, as written, after a
\* second analysis and a profile upsert of its athlete in second 1
C11_Witness ==
    /\ DOMAIN sessions = {1, 2}
    /\ sessions[1].created_at = 0
    /\ sessions[1].athlete_id = 101
    /\ sessions[1].overall = 60
    /\ sessions[2].created_at = 1
    /\ clock = 1
    /\ req.op = "postProfile"
    /\ res.status = 200
    /\ 101 \in DOMAIN athletes

\* the columns an upsert of this request body writes
BodyColumns(body) ==
    [name      |-> body.name,
     age       |-> NumOrNull(body.age),
     height_cm |-> NumOrNull(body.height),
     weight_kg |-> NumOrNull(body.weight),
     sport     |-> StrOrNull(body.sport),
     level     |-> StrOrNull(body.level)]

\* the request columns of a stored row
RowColumns(row) ==
    [name      |-> row.name,
     age       |-> row.age,
     height_cm |-> row.height_cm,
     weight_kg |-> row.weight_kg,
     sport     |-> row.sport,
     level     |-> row.level]

OmittedIsNull(body, row) ==
    /\ body.age = <<>> => row.age = <<>>
    /\ body.height = <<>> => row.height_cm = <<>>
    /\ body.weight = <<>> => row.weight_kg = <<>>
    /\ body.sport = <<>> => row.sport = <<>>
    /\ body.level = <<>> => row.level = <<>>

\* C12: an upsert with an id that already exists overwrites every profile
\* column with what the request carries: an optional field (age, height,
\* weight, sport, level) the request omits is stored as null, never kept
\* at its previous value, and created_at is not altered.
C12_UpsertOverwritesAll ==
    [][\A id \in DOMAIN athletes :
          UpsertStep(id) =>
              /\ RowColumns(athletes'[id]) = BodyColumns(req'.body)
              /\ OmittedIsNull(req'.body, athletes'[id])
              /\ athletes'[id].created_at = athletes[id].created_at
              /\ athletes'[id].id = id]_vars

\* the full profile of second 0 upserted again in second 1 with only name
\* and age: height, weight, sport and level are null now
C12_Witness ==
    /\ req.op = "postProfile"
    /\ res.status = 200
    /\ res.id = 101
    /\ req.body = Body(<<"Ann">>, <<30>>, <<>>, <<0>>, <<"">>, <<>>)
    /\ athletes[101].age = <<30>>
    /\ athletes[101].height_cm = <<>>
    /\ athletes[101].level = <<>>
    /\ athletes[101].created_at = 0
    /\ athletes[101].updated_at = 1

\* a handler ran in this step, for a request that was waiting
HandledStep == \E r \in Waiting : r \notin inflight'

\* C13: with several upserts to one athlete id in flight at once, every
\* stored profile is at all times the whole record of one single request:
\* the step that runs a handler leaves the row holding exactly the columns
\* of the request it served (the one applied last) or, when the write
\* fails or the request is rejected, leaves the table as it was; no row
\* ever holds some columns of one request and the rest of another.
C13_UpsertIsWholeRecord ==
    [][/\ \A id \in DOMAIN athletes' :
             \E r \in ConcurrentBodies :
                 ~NameMissing(r) /\ RowColumns(athletes'[id]) = BodyColumns(r)
       /\ HandledStep =>
             IF res'.status = 200
             THEN /\ RowColumns(athletes'[res'.id]) = BodyColumns(req'.body)
                  /\ \A id \in DOMAIN athletes :
                        id # res'.id => athletes'[id] = athletes[id]
             ELSE athletes' = athletes]_vars

\* Ann's and Bo's upserts of profile 101 were both waiting; Ann's handler
\* ran first, Bo's second, both answered 200: the row is Bo's record
C13_Witness ==
    /\ \E a, b \in inflight :
          /\ a.id = 101 /\ b.id = 101
          /\ a.status = 200 /\ b.status = 200
          /\ a.body.name = <<"Ann">> /\ a.behind = 1
          /\ b.body.name = <<"Bo">> /\ b.behind = 0
    /\ req.body.name = <<"Bo">>
    /\ res.status = 200
    /\ RowColumns(athletes[101]) =
          [name |-> <<"Bo">>, age |-> <<30>>, height_cm |-> <<>>,
           weight_kg |-> <<>>, sport |-> <<>>, level |-> <<>>]

====
